---- MODULE Spec2Model ----
(***************************************************************************)
(* A model of the go-mlflow client (src/mlflow.go): the query flattening   *)
(* of AddQuery, the GET/POST dispatch of HandleGet and HandlePost, and the *)
(* endpoint methods built on them.                                         *)
(***************************************************************************)
EXTENDS Integers, Sequences, FiniteSets, TLC

VARIABLES
    BaseUrl,    \* Client.BaseUrl
    experiments,\* the tracking service: the names of its experiments, by identifier
    clock,      \* the wall clock, in epoch seconds
    returned,   \* the identifiers the service has returned to CreateExperiment
    others,     \* identifiers the service created for calls of other callers that
                \* have not returned yet
    call,       \* the observed caller's call: where it is and what it holds
    params,     \* HandleGet: the params argument, its entries in range order
    q0,         \* HandleGet: req.URL.Query(), the query the url argument carries
    todo,       \* HandleGet: entries of params the range loop has not visited yet
    q,          \* HandleGet: the url.Values being built
    qBefore,    \* HandleGet: q as it was before the last AddQuery call
    visited,    \* HandleGet: the <<key, value>> entry of the last AddQuery call
    qpc         \* HandleGet: "loop" while ranging over params, "encoded" after line 111

qvars == <<params, q0, todo, q, qBefore, visited, qpc>>
evars == <<BaseUrl, experiments, clock, returned, others, call>>
vars == <<evars, qvars>>

(***************************************************************************)
(* Bounds of the model.                                                    *)
(***************************************************************************)
MaxClock == 1       \* the last second the wall clock reaches
MaxNodes == 3       \* number of values (scalars, list elements and containers) in a
                    \* parameter mapping; it bounds nesting depth and list length too

(***************************************************************************)
(* Go values of dynamic type interface{}.  A map value is the sequence of  *)
(* its <<key, value>> entries in the order `range` visits them: Go leaves  *)
(* that order unspecified, so every order of the same entries is a value.  *)
(***************************************************************************)
Str(s) == [t |-> "string", s |-> s]
IntV(i) == [t |-> "int", i |-> i]
Int64V(i) == [t |-> "int64", i |-> i]
BoolV(b) == [t |-> "bool", b |-> b]
StrsV(xs) == [t |-> "[]string", xs |-> xs]
ListV(l) == [t |-> "[]interface{}", l |-> l]
MapV(m) == [t |-> "map[string]interface{}", m |-> m]
Float64V == [t |-> "float64", f |-> "1.5"]
NilV == [t |-> "nil"]

ScalarTypes == {"string", "int", "int64", "bool"}

\* strconv.Itoa / strconv.FormatInt(_, 10): decimal digits, "-" for negatives.
Digit(d) == CASE d = 0 -> "0" [] d = 1 -> "1" [] d = 2 -> "2" [] d = 3 -> "3"
              [] d = 4 -> "4" [] d = 5 -> "5" [] d = 6 -> "6" [] d = 7 -> "7"
              [] d = 8 -> "8" [] d = 9 -> "9"

RECURSIVE FormatUint(_)
FormatUint(n) == IF n < 10 THEN Digit(n) ELSE FormatUint(n \div 10) \o Digit(n % 10)

\* a FormatInt that loses the sign
FormatIntNoSign(i) == IF i < 0 THEN FormatUint(0 - i) ELSE FormatUint(i)

FormatInt(i) == IF i < 0 THEN "-" \o FormatUint(0 - i) ELSE FormatUint(i)

Itoa(i) == FormatInt(i)

FormatBool(b) == IF b THEN "true" ELSE "false"

(***************************************************************************)
(* url.Values: a map from key to the list of its values.                   *)
(***************************************************************************)
EmptyValues == [k \in {} |-> <<>>]

\* an Add that behaves as url.Values.Set: the value replaces the list under key
AddSet(v, key, value) ==
    [k \in DOMAIN v \cup {key} |-> IF k = key THEN <<value>> ELSE v[k]]

\* url.Values.Add: append value to the list under key.
Add(v, key, value) ==
    IF key \in DOMAIN v
    THEN [v EXCEPT ![key] = Append(@, value)]
    ELSE [k \in DOMAIN v \cup {key} |-> IF k = key THEN <<value>> ELSE v[k]]

\* for _, v := range value { q.Add(key, v) }
RECURSIVE AddStrings(_, _, _)
AddStrings(v, key, xs) ==
    IF xs = <<>> THEN v ELSE AddStrings(Add(v, key, Head(xs)), key, Tail(xs))

RECURSIVE AddQuery(_, _, _)
RECURSIVE AddQueryList(_, _, _)
RECURSIVE AddQueryMap(_, _, _)

\* for _, v := range value { AddQuery(q, key, v) }
AddQueryList(v, key, l) ==
    IF l = <<>> THEN v ELSE AddQueryList(AddQuery(v, key, Head(l)), key, Tail(l))

\* a map case that joins the keys without the dot
AddQueryMapNoDot(v, key, m) ==
    IF m = <<>> THEN v
    ELSE AddQueryMap(AddQuery(v, key \o Head(m)[1], Head(m)[2]), key, Tail(m))

\* a map case that returns after the first entry it visits
AddQueryMapFirstOnly(v, key, m) ==
    IF m = <<>> THEN v
    ELSE AddQuery(v, key \o "." \o Head(m)[1], Head(m)[2])

\* for k, v := range value { AddQuery(q, key+"."+k, v) }
AddQueryMap(v, key, m) ==
    IF m = <<>> THEN v
    ELSE AddQueryMap(AddQuery(v, key \o "." \o Head(m)[1], Head(m)[2]), key, Tail(m))

\* an AddQuery whose default case adds an empty value instead of nothing
AddQueryDefaultEmpty(v, key, value) ==
    CASE value.t = "string" -> Add(v, key, value.s)
      [] value.t = "int" -> Add(v, key, Itoa(value.i))
      [] value.t = "int64" -> Add(v, key, FormatInt(value.i))
      [] value.t = "bool" -> Add(v, key, FormatBool(value.b))
      [] value.t = "[]string" -> AddStrings(v, key, value.xs)
      [] value.t = "[]interface{}" -> AddQueryList(v, key, value.l)
      [] value.t = "map[string]interface{}" -> AddQueryMap(v, key, value.m)
      [] OTHER -> Add(v, key, "")

AddQuery(v, key, value) ==
    CASE value.t = "string" -> Add(v, key, value.s)
      [] value.t = "int" -> Add(v, key, Itoa(value.i))
      [] value.t = "int64" -> Add(v, key, FormatInt(value.i))
      [] value.t = "bool" -> Add(v, key, FormatBool(value.b))
      [] value.t = "[]string" -> AddStrings(v, key, value.xs)
      [] value.t = "[]interface{}" -> AddQueryList(v, key, value.l)
      [] value.t = "map[string]interface{}" -> AddQueryMap(v, key, value.m)
      [] OTHER -> v

\* HandleGet, lines 107-110: q after `for key, value := range params`, from the
\* query v0 of the url, for the entries m of params in the order they are visited
RECURSIVE BuildQuery(_, _)
BuildQuery(v0, m) ==
    IF m = <<>> THEN v0
    ELSE BuildQuery(AddQuery(v0, Head(m)[1], Head(m)[2]), Tail(m))

(***************************************************************************)
(* The inputs of HandleGet: parameter mappings of bounded size.            *)
(***************************************************************************)
Leaves == {Str("x"), IntV(-12), Int64V(305), BoolV(FALSE), Float64V, NilV}
TopKeys == {"a", "a.b"}     \* keys of the params argument
Keys == {"a", "b"}          \* keys of a nested mapping
Strings == {"x", "y"}

RECURSIVE Size(_)
RECURSIVE SizeSeq(_)
RECURSIVE SizePairs(_)
Size(value) ==
    CASE value.t = "[]string" -> 1 + Len(value.xs)
      [] value.t = "[]interface{}" -> 1 + SizeSeq(value.l)
      [] value.t = "map[string]interface{}" -> 1 + SizePairs(value.m)
      [] OTHER -> 1
SizeSeq(l) == IF l = <<>> THEN 0 ELSE Size(Head(l)) + SizeSeq(Tail(l))
SizePairs(m) == IF m = <<>> THEN 0 ELSE Size(Head(m)[2]) + SizePairs(Tail(m))

RECURSIVE StrSeqs(_)
StrSeqs(n) ==
    IF n <= 0 THEN {<<>>}
    ELSE {<<>>} \cup {<<s>> \o r : s \in Strings, r \in StrSeqs(n - 1)}

\* the values, sequences of values and sequences of entries of at most n values
RECURSIVE Vals(_)
RECURSIVE ValSeqs(_)
RECURSIVE PairSeqs(_, _)
Vals(n) ==
    IF n < 1 THEN {}
    ELSE Leaves
         \cup {StrsV(xs) : xs \in StrSeqs(n - 1)}
         \cup {ListV(l) : l \in ValSeqs(n - 1)}
         \cup {MapV(m) : m \in PairSeqs(n - 1, Keys)}
ValSeqs(n) ==
    {<<>>} \cup UNION {{<<v>> \o r : r \in ValSeqs(n - Size(v))} : v \in Vals(n)}
PairSeqs(n, ks) ==
    {<<>>} \cup UNION {{<<<<k, v>>>> \o r : r \in PairSeqs(n - Size(v), ks \ {k})} :
                         k \in ks, v \in Vals(n)}

\* map[string]interface{} arguments of HandleGet, each in every range order
ParamMaps == PairSeqs(MaxNodes, TopKeys)

\* req.URL.Query() of the url argument: no query, or the query "a=z"
UrlQueries == {EmptyValues, [k \in {"a"} |-> <<"z">>]}

NoEntry == <<>>

(***************************************************************************)
(* Strings, byte by byte.  Names are ASCII text; Ascii holds, in byte       *)
(* order, the characters they are written in.                              *)
(***************************************************************************)
Lower == "abcdefghijklmnopqrstuvwxyz"
Upper == "ABCDEFGHIJKLMNOPQRSTUVWXYZ"
Ascii ==
    " !#$%&'()*+,-./0123456789:;<=>?@ABCDEFGHIJKLMNOPQRSTUVWXYZ[]^_abcdefghijklmnopqrstuvwxyz{|}~"

CharAt(s, i) == SubSeq(s, i, i)

Characters == {CharAt(Ascii, i) : i \in 1..Len(Ascii)}

\* the place of each character in byte order
Code == [c \in Characters |-> CHOOSE i \in 1..Len(Ascii) : CharAt(Ascii, i) = c]

\* s < t in Go's order of strings: byte by byte, a prefix first
RECURSIVE StringLess(_, _)
StringLess(s, t) ==
    IF t = "" THEN FALSE
    ELSE IF s = "" THEN TRUE
    ELSE IF CharAt(s, 1) # CharAt(t, 1) THEN Code[CharAt(s, 1)] < Code[CharAt(t, 1)]
    ELSE StringLess(SubSeq(s, 2, Len(s)), SubSeq(t, 2, Len(t)))

\* the strings of a set in increasing order
RECURSIVE SortStrings(_)
SortStrings(strings) ==
    IF strings = {} THEN <<>>
    ELSE LET least == CHOOSE x \in strings : \A y \in strings \ {x} : StringLess(x, y)
         IN  <<least>> \o SortStrings(strings \ {least})

\* encoding/json folds the case of a name letter by letter
FoldChar ==
    [c \in Characters |->
        IF \E i \in 1..Len(Lower) : CharAt(Lower, i) = c
        THEN CharAt(Upper, CHOOSE i \in 1..Len(Lower) : CharAt(Lower, i) = c)
        ELSE c]

RECURSIVE FoldName(_)
FoldName(name) ==
    IF name = "" THEN ""
    ELSE FoldChar[CharAt(name, 1)] \o FoldName(SubSeq(name, 2, Len(name)))

(***************************************************************************)
(* JSON documents, as encoding/json reads and writes them.  An object is   *)
(* the sequence of its members <<name, value>> in document order; a name   *)
(* may occur more than once.                                               *)
(***************************************************************************)
JNull == [j |-> "null"]
JStr(s) == [j |-> "string", s |-> s]
JNum(n) == [j |-> "number", n |-> n]
JFraction(f) == [j |-> "fraction", f |-> f]     \* a number that is not an integer
JBool(b) == [j |-> "bool", b |-> b]
JArr(a) == [j |-> "array", a |-> a]
JObj(o) == [j |-> "object", o |-> o]
EmptyObj == <<>>

\* the names of the members, and the value of the last member of a name
MemberNames(members) == {members[i][1] : i \in 1..Len(members)}
LastMember(members, name) ==
    members[CHOOSE i \in 1..Len(members) :
               /\ members[i][1] = name
               /\ \A k \in (i + 1)..Len(members) : members[k][1] # name][2]

\* the member of a document under a name, null when it has none
Member(doc, name) ==
    IF doc.j = "object" /\ name \in MemberNames(doc.o) THEN LastMember(doc.o, name)
    ELSE JNull

\* the bytes of a response body: none at all, text that is not JSON, or a document
EmptyBody == [b |-> "empty"]
MalformedBody == [b |-> "malformed", text |-> "<html>"]
JsonBody(doc) == [b |-> "json", doc |-> doc]

\* Go's nil (a nil slice, map, pointer or error) and a non-nil pointer to v
NIL == [nil |-> TRUE]
Ptr(v) == [nil |-> FALSE, v |-> v]
NoError == "nil"

\* values of the request maps the endpoint methods build
StatusV(s) == [t |-> "RunStatus", s |-> s]
TagsV(tags) == [t |-> "[]map[string]string", tags |-> tags]
NilTagsV == [t |-> "[]map[string]string", isNil |-> TRUE]
ChanV == [t |-> "chan int"]

Running == "RUNNING"
Scheduled == "SCHEDULED"
Finished == "FINISHED"
Failed == "FAILED"
Killed == "KILLED"
Uninitialized == "UNINITIALIZED"
RunStatuses == {Running, Scheduled, Finished, Failed, Killed, Uninitialized}

\* json.Marshal of a request value: the document, or an error for a type json
\* cannot encode.  The members of a map are written in the order of their keys.
RECURSIVE Marshalable(_)
RECURSIVE ToJson(_)
EntryValue(m, key) == (CHOOSE e \in {m[i] : i \in 1..Len(m)} : e[1] = key)[2]
Marshalable(value) ==
    CASE value.t = "map[string]interface{}" ->
            \A i \in 1..Len(value.m) : Marshalable(value.m[i][2])
      [] value.t = "[]interface{}" -> \A i \in 1..Len(value.l) : Marshalable(value.l[i])
      [] value.t = "chan int" -> FALSE
      [] OTHER -> TRUE
ToJson(value) ==
    CASE value.t \in {"string", "RunStatus"} -> JStr(value.s)
      [] value.t \in {"int", "int64"} -> JNum(value.i)
      [] value.t = "bool" -> JBool(value.b)
      [] value.t = "float64" -> JFraction(value.f)
      [] value.t = "[]string" -> JArr([i \in 1..Len(value.xs) |-> JStr(value.xs[i])])
      [] value.t = "[]map[string]string" ->
            IF "isNil" \in DOMAIN value THEN JNull
            ELSE JArr([i \in 1..Len(value.tags) |->
                         LET keys == SortStrings(DOMAIN value.tags[i])
                         IN  JObj([n \in 1..Len(keys) |->
                                     <<keys[n], JStr(value.tags[i][keys[n]])>>])])
      [] value.t = "[]interface{}" -> JArr([i \in 1..Len(value.l) |-> ToJson(value.l[i])])
      [] value.t = "map[string]interface{}" ->
            LET keys == SortStrings({value.m[i][1] : i \in 1..Len(value.m)})
            IN  JObj([n \in 1..Len(keys) |->
                        <<keys[n], ToJson(EntryValue(value.m, keys[n]))>>])
      [] value.t = "nil" -> JNull

(***************************************************************************)
(* json.Unmarshal into the response structs.  The fields of a struct, in   *)
(* the order of their declaration: the tag, the Go name and the type.      *)
(***************************************************************************)
FieldOf(tag, field, type) == [tag |-> tag, field |-> field, type |-> type]

ResponseExperimentFields == <<FieldOf("experiment", "Experiment", "Experiment")>>
ExperimentFields ==
    <<FieldOf("experiment_id", "ExperimentId", "string"),
      FieldOf("name", "Name", "string"),
      FieldOf("artifact_location", "ArtifactLocation", "string"),
      FieldOf("lifecycle_stage", "LifecycleStage", "string")>>
ResponseCreateExperimentFields == <<FieldOf("experiment_id", "ExperimentId", "string")>>
ResponseRunFields == <<FieldOf("run", "Run", "Run")>>
RunFields ==
    <<FieldOf("info", "Info", "RunInfo"),
      FieldOf("data", "Data", "map[string]interface{}")>>
RunInfoFields ==
    <<FieldOf("run_uuid", "RunUUid", "string"),
      FieldOf("experiment_id", "ExperimentId", "string"),
      FieldOf("user_id", "UserId", "string"),
      FieldOf("status", "Status", "string"),
      FieldOf("start_time", "StartTime", "int64"),
      FieldOf("end_time", "EndTime", "int64"),
      FieldOf("artifact_uri", "ArtifactUri", "string"),
      FieldOf("lifecycle_stage", "LifecycleStage", "string"),
      FieldOf("run_id", "RunId", "string")>>
ResponseRunUpdateFields == <<FieldOf("run_info", "Info", "RunInfo")>>

Fields(type) ==
    CASE type = "ResponseExperiment" -> ResponseExperimentFields
      [] type = "Experiment" -> ExperimentFields
      [] type = "ResponseCreateExperiment" -> ResponseCreateExperimentFields
      [] type = "ResponseRun" -> ResponseRunFields
      [] type = "Run" -> RunFields
      [] type = "RunInfo" -> RunInfoFields
      [] type = "ResponseRunUpdate" -> ResponseRunUpdateFields

\* the zero value of a type
RECURSIVE Zero(_)
Zero(type) ==
    CASE type = "string" -> ""
      [] type = "int64" -> 0
      [] type = "map[string]interface{}" -> NIL
      [] OTHER ->
            LET fs == Fields(type)
            IN  [field \in {fs[i].field : i \in 1..Len(fs)} |->
                    Zero((CHOOSE f \in {fs[i] : i \in 1..Len(fs)} : f.field = field).type)]

\* the field a member is decoded into: the one tagged with the member's name,
\* or else the first whose tag is the name but for case; 0 when there is none
FieldFor(fs, name) ==
    IF \E i \in 1..Len(fs) : fs[i].tag = name
    THEN CHOOSE i \in 1..Len(fs) : fs[i].tag = name
    ELSE IF \E i \in 1..Len(fs) : FoldName(fs[i].tag) = FoldName(name)
    THEN CHOOSE i \in 1..Len(fs) :
            /\ FoldName(fs[i].tag) = FoldName(name)
            /\ \A k \in 1..(i - 1) : FoldName(fs[k].tag) # FoldName(name)
    ELSE 0

\* a document decoded into an interface{}: an object becomes a map in which the
\* last member of a name stands
RECURSIVE Interface(_)
Interface(doc) ==
    CASE doc.j = "object" ->
            [t |-> "map[string]interface{}",
             m |-> [k \in MemberNames(doc.o) |-> Interface(LastMember(doc.o, k))]]
      [] doc.j = "array" ->
            [t |-> "[]interface{}", l |-> [i \in 1..Len(doc.a) |-> Interface(doc.a[i])]]
      [] OTHER -> doc

\* an object decoded into a map that may hold entries: its members are set in
\* the map, the other entries stay
MapMerge(cur, members) ==
    LET old == IF cur = NIL THEN [k \in {} |-> JNull] ELSE cur.m
    IN  [t |-> "map[string]interface{}",
         m |-> [k \in DOMAIN old \cup MemberNames(members) |->
                   IF k \in MemberNames(members)
                   THEN Interface(LastMember(members, k)) ELSE old[k]]]

\* a document decoded into a value cur of a type: the value it leaves, and
\* whether it fitted.  null leaves a string, a number and a struct as they are
\* and makes a map nil; a document of another JSON type than the Go type takes
\* is a type error, which leaves the value and lets the decoding go on; the
\* members of an object are decoded one after the other, in document order,
\* each into the field it names, so that a later member overwrites an earlier.
RECURSIVE DecodeValue(_, _, _)
RECURSIVE DecodeObject(_, _, _)
DecodeValue(type, cur, doc) ==
    CASE doc.j = "null" ->
            [v |-> IF type = "map[string]interface{}" THEN NIL ELSE cur, ok |-> TRUE]
      [] type = "string" ->
            IF doc.j = "string" THEN [v |-> doc.s, ok |-> TRUE] ELSE [v |-> cur, ok |-> FALSE]
      [] type = "int64" ->
            IF doc.j = "number" THEN [v |-> doc.n, ok |-> TRUE] ELSE [v |-> cur, ok |-> FALSE]
      [] type = "map[string]interface{}" ->
            IF doc.j = "object" THEN [v |-> MapMerge(cur, doc.o), ok |-> TRUE]
            ELSE [v |-> cur, ok |-> FALSE]
      [] OTHER ->
            IF doc.j = "object" THEN DecodeObject(type, cur, doc.o)
            ELSE [v |-> cur, ok |-> FALSE]
DecodeObject(type, cur, members) ==
    IF members = <<>> THEN [v |-> cur, ok |-> TRUE]
    ELSE LET f == FieldFor(Fields(type), members[1][1])
             field == Fields(type)[f].field
             d == DecodeValue(Fields(type)[f].type, cur[field], members[1][2])
             first == IF f = 0 THEN [v |-> cur, ok |-> TRUE]
                      ELSE [v |-> [cur EXCEPT ![field] = d.v], ok |-> d.ok]
             rest == DecodeObject(type, first.v, Tail(members))
         IN  [v |-> rest.v, ok |-> first.ok /\ rest.ok]

\* json.Unmarshal(data, &response) for a response that is the zero value
Unmarshal(type, doc) == DecodeValue(type, Zero(type), doc)

ResponseExperiment(doc) == Unmarshal("ResponseExperiment", doc).v
ResponseExperimentOk(doc) == Unmarshal("ResponseExperiment", doc).ok
ResponseCreateExperiment(doc) == Unmarshal("ResponseCreateExperiment", doc).v
ResponseCreateExperimentOk(doc) == Unmarshal("ResponseCreateExperiment", doc).ok
ResponseRun(doc) == Unmarshal("ResponseRun", doc).v
ResponseRunOk(doc) == Unmarshal("ResponseRun", doc).ok
ResponseRunUpdate(doc) == Unmarshal("ResponseRunUpdate", doc).v
ResponseRunUpdateOk(doc) == Unmarshal("ResponseRunUpdate", doc).ok

\* the error of json.Unmarshal(data, &response), given whether the document
\* fits the response struct: nil data and an empty body are a syntax error
UnmarshalError(data, fits) ==
    CASE data = NIL -> "unexpected end of JSON input"
      [] data.b = "empty" -> "unexpected end of JSON input"
      [] data.b = "malformed" -> "invalid character '<' looking for beginning of value"
      [] data.b = "json" /\ ~fits -> "json: cannot unmarshal"
      [] OTHER -> NoError

DocOf(data) == IF data # NIL /\ data.b = "json" THEN data.doc ELSE JNull

(***************************************************************************)
(* The HTTP exchange.  A request that was built is answered by a transport *)
(* failure, by a failure while the body is read, or by a response.         *)
(***************************************************************************)
NoRequest == [method |-> "none"]
NoExchange == [kind |-> "none"]
DoError == [kind |-> "doError"]
ReadError == [kind |-> "readError"]
Response(status, body, fromService) ==
    [kind |-> "response", status |-> status, body |-> body, fromService |-> fromService]

\* http.NewRequest parses the url: the base urls it accepts
BaseUrls == {"http://localhost:5000", ":"}
NewRequestOk(url) == url # ":"

ExperimentsGet == "/api/2.0/mlflow/experiments/get"
ExperimentsGetByName == "/api/2.0/mlflow/experiments/get-by-name"
ExperimentsCreate == "/api/2.0/mlflow/experiments/create"
RunsCreate == "/api/2.0/mlflow/runs/create"
RunsUpdate == "/api/2.0/mlflow/runs/update"
RunsDelete == "/api/2.0/mlflow/runs/delete"
RunsGet == "/api/2.0/mlflow/runs/get"

\* the request HandleGet sends: lines 103-111
GetRequest(base, path, prm) ==
    IF ~NewRequestOk(base) THEN NoRequest
    ELSE [method |-> "GET", base |-> base, path |-> path,
          query |-> BuildQuery(EmptyValues, prm)]

\* the request HandlePost sends: lines 128-136
PostRequest(base, path, request) ==
    IF ~Marshalable(request) \/ ~NewRequestOk(base) THEN NoRequest
    ELSE [method |-> "POST", base |-> base, path |-> path,
          contentType |-> "application/json", body |-> ToJson(request)]

\* a HandleGet that returns the body whatever the status
HandleGetAnyStatus(out) ==
    CASE out.kind = "none" -> [data |-> NIL, err |-> "parse: missing protocol scheme"]
      [] out.kind = "doError" -> [data |-> NIL, err |-> "dial tcp: connection refused"]
      [] out.kind = "readError" -> [data |-> NIL, err |-> "unexpected EOF"]
      [] OTHER -> [data |-> out.body, err |-> NoError]

\* what HandleGet returns: lines 104-106 and 112-124
HandleGet(out) ==
    CASE out.kind = "none" -> [data |-> NIL, err |-> "parse: missing protocol scheme"]
      [] out.kind = "doError" -> [data |-> NIL, err |-> "dial tcp: connection refused"]
      [] out.kind = "readError" -> [data |-> NIL, err |-> "unexpected EOF"]
      [] out.status = 200 -> [data |-> out.body, err |-> NoError]
      [] OTHER -> [data |-> NIL, err |-> NoError]

\* a HandlePost that returns the body whatever the status
HandlePostAnyStatus(request, out) ==
    CASE ~Marshalable(request) -> [data |-> NIL, err |-> "json: unsupported type"]
      [] out.kind = "none" -> [data |-> NIL, err |-> "parse: missing protocol scheme"]
      [] out.kind = "doError" -> [data |-> NIL, err |-> "dial tcp: connection refused"]
      [] out.kind = "readError" -> [data |-> NIL, err |-> "unexpected EOF"]
      [] OTHER -> [data |-> out.body, err |-> NoError]

\* what HandlePost returns: lines 128-135 and 138-150
HandlePost(request, out) ==
    CASE ~Marshalable(request) -> [data |-> NIL, err |-> "json: unsupported type"]
      [] out.kind = "none" -> [data |-> NIL, err |-> "parse: missing protocol scheme"]
      [] out.kind = "doError" -> [data |-> NIL, err |-> "dial tcp: connection refused"]
      [] out.kind = "readError" -> [data |-> NIL, err |-> "unexpected EOF"]
      [] out.status = 200 -> [data |-> out.body, err |-> NoError]
      [] OTHER -> [data |-> NIL, err |-> NoError]

(***************************************************************************)
(* The tracking service behind the experiment endpoints: it numbers the    *)
(* experiments it creates and answers a get with the experiment stored.    *)
(* `experiments` holds the names in creation order; the i-th has id i.     *)
(***************************************************************************)
ServiceHandles(sent) ==
    sent # NoRequest /\ sent.path \in {ExperimentsGet, ExperimentsGetByName, ExperimentsCreate}

ExperimentDoc(exps, i) ==
    JObj(<<<<"experiment",
              JObj(<<<<"experiment_id", JStr(Itoa(i))>>,
                     <<"name", JStr(exps[i])>>,
                     <<"artifact_location", JStr("mlruns/" \o Itoa(i))>>,
                     <<"lifecycle_stage", JStr("active")>>>>)>>>>)

ErrorDoc(code) == JObj(<<<<"error_code", JStr(code)>>>>)

QueryValue(sent, key) ==
    IF key \in DOMAIN sent.query THEN sent.query[key][1] ELSE ""

ServiceAnswer(exps, sent) ==
    CASE sent.path = ExperimentsGet ->
            LET found == {i \in 1..Len(exps) : Itoa(i) = QueryValue(sent, "experiment_id")}
            IN  IF found = {}
                THEN Response(404, JsonBody(ErrorDoc("RESOURCE_DOES_NOT_EXIST")), TRUE)
                ELSE Response(200, JsonBody(ExperimentDoc(exps, CHOOSE i \in found : TRUE)), TRUE)
      [] sent.path = ExperimentsGetByName ->
            LET found == {i \in 1..Len(exps) : exps[i] = QueryValue(sent, "experiment_name")}
            IN  IF found = {}
                THEN Response(404, JsonBody(ErrorDoc("RESOURCE_DOES_NOT_EXIST")), TRUE)
                ELSE Response(200, JsonBody(ExperimentDoc(exps, CHOOSE i \in found : TRUE)), TRUE)
      [] sent.path = ExperimentsCreate ->
            LET name == Member(sent.body, "name").s
            IN  IF \E i \in 1..Len(exps) : exps[i] = name
                THEN Response(400, JsonBody(ErrorDoc("RESOURCE_ALREADY_EXISTS")), TRUE)
                ELSE Response(200, JsonBody(JObj(<<<<"experiment_id",
                                                     JStr(Itoa(Len(exps) + 1))>>>>)), TRUE)

ServiceStore(exps, sent) ==
    IF sent.path = ExperimentsCreate
       /\ ~\E i \in 1..Len(exps) : exps[i] = Member(sent.body, "name").s
    THEN Append(exps, Member(sent.body, "name").s)
    ELSE exps

\* the answers of anything else that may sit at the base url
Statuses == {200, 404}
SampleRunInfo ==
    JObj(<<<<"run_id", JStr("r1")>>, <<"experiment_id", JStr("1")>>,
           <<"status", JStr(Running)>>, <<"start_time", JNum(5)>>>>)
Bodies ==
    {EmptyBody, MalformedBody, JsonBody(JNull), JsonBody(JObj(EmptyObj)),
     JsonBody(JObj(<<<<"experiment",
                      JObj(<<<<"experiment_id", JStr("9")>>, <<"NAME", JStr("n")>>>>)>>>>)),
     JsonBody(JObj(<<<<"experiment_id", JStr("9")>>>>)),
     JsonBody(JObj(<<<<"Experiment_Id", JStr("9")>>>>)),
     JsonBody(JObj(<<<<"experiment_id", JStr("1")>>, <<"EXPERIMENT_ID", JNum(2)>>>>)),
     JsonBody(JObj(<<<<"run", JObj(<<<<"info", SampleRunInfo>>,
                                     <<"data", JObj(<<<<"k", JFraction("1.5")>>>>)>>>>)>>>>)),
     JsonBody(JObj(<<<<"run_info", SampleRunInfo>>>>)),
     JsonBody(JObj(<<<<"run_info", JObj(<<<<"RUN_ID", JNum(1)>>>>)>>>>))}

Outcomes(exps, sent) ==
    IF sent = NoRequest THEN {NoExchange}
    ELSE {DoError, ReadError}
         \cup {Response(st, body, FALSE) : st \in Statuses, body \in Bodies}
         \cup (IF ServiceHandles(sent) THEN {ServiceAnswer(exps, sent)} ELSE {})

\* the service acts on a request that reached it, also when its answer is lost
Reached(out) == out.kind = "readError" \/ (out.kind = "response" /\ out.fromService)

(***************************************************************************)
(* The endpoint methods.  A method builds its request and sends it, blocks *)
(* in Client.Do and ioutil.ReadAll until the exchange is over, and then    *)
(* decodes what the dispatcher returned.  `call` holds the observed        *)
(* caller's call: pc is "idle" before the first call, "sent" while the     *)
(* request is out, "answered" once the exchange is over (or could not      *)
(* start), "done" when the method has returned (result, err).  The clock   *)
(* advances and other callers are served while the call is in flight.      *)
(***************************************************************************)
NoValue == [t |-> "none"]

NoCall ==
    [pc |-> "idle", op |-> "none", args |-> <<>>, known |-> {}, method |-> "none",
     request |-> NoValue, sent |-> NoRequest, out |-> NoExchange,
     data |-> NIL, derr |-> NoError, result |-> NIL, err |-> NoError]

\* time.Now().Unix()
Now == clock

\* the method is entered: its request value is built and, when json.Marshal and
\* http.NewRequest accept it, the request is sent; when they do not, nothing is
\* sent and the method goes on to return the error
Start(op, args, method, request, sent) ==
    /\ call.pc \in {"idle", "done"}
    /\ call' = [pc |-> IF sent = NoRequest THEN "answered" ELSE "sent",
                op |-> op, args |-> args, known |-> returned, method |-> method,
                request |-> request, sent |-> sent, out |-> NoExchange,
                data |-> NIL, derr |-> NoError, result |-> NIL, err |-> NoError]
    /\ UNCHANGED <<BaseUrl, experiments, clock, returned, others, qvars>>

\* lines 156-164, 170-178: the experiment of the response, or the error
ExperimentReturnNilOnNoData(h) ==
    IF h.err # NoError THEN [result |-> NIL, err |-> h.err]
    ELSE IF h.data = NIL THEN [result |-> NIL, err |-> NoError]
    ELSE LET doc == DocOf(h.data)
             e == UnmarshalError(h.data, ResponseExperimentOk(doc))
         IN  IF e # NoError THEN [result |-> NIL, err |-> e]
             ELSE [result |-> Ptr(ResponseExperiment(doc).Experiment), err |-> NoError]

ExperimentReturn(h) ==
    IF h.err # NoError THEN [result |-> NIL, err |-> h.err]
    ELSE LET doc == DocOf(h.data)
             e == UnmarshalError(h.data, ResponseExperimentOk(doc))
         IN  IF e # NoError THEN [result |-> NIL, err |-> e]
             ELSE [result |-> Ptr(ResponseExperiment(doc).Experiment), err |-> NoError]

\* lines 184-192
CreateExperimentReturn(h) ==
    IF h.err # NoError THEN [result |-> NIL, err |-> h.err]
    ELSE LET doc == DocOf(h.data)
             e == UnmarshalError(h.data, ResponseCreateExperimentOk(doc))
         IN  IF e # NoError THEN [result |-> NIL, err |-> e]
             ELSE [result |-> Ptr(ResponseCreateExperiment(doc).ExperimentId), err |-> NoError]

\* lines 198-206, 240-248
RunReturn(h) ==
    IF h.err # NoError THEN [result |-> NIL, err |-> h.err]
    ELSE LET doc == DocOf(h.data)
             e == UnmarshalError(h.data, ResponseRunOk(doc))
         IN  IF e # NoError THEN [result |-> NIL, err |-> e]
             ELSE [result |-> Ptr(ResponseRun(doc).Run), err |-> NoError]

\* lines 216-224
RunUpdateReturn(h) ==
    IF h.err # NoError THEN [result |-> NIL, err |-> h.err]
    ELSE LET doc == DocOf(h.data)
             e == UnmarshalError(h.data, ResponseRunUpdateOk(doc))
         IN  IF e # NoError THEN [result |-> NIL, err |-> e]
             ELSE [result |-> Ptr(ResponseRunUpdate(doc).Info), err |-> NoError]

\* lines 233-234: the error and nothing else
ErrorReturn(h) == [result |-> NIL, err |-> h.err]

\* a GetExperiment that sends the identifier under the key "id"
GetExperimentParamsWrongKey(experimentId) == <<<<"id", Str(experimentId)>>>>

\* line 155: the params of GetExperiment
GetExperimentParams(experimentId) == <<<<"experiment_id", Str(experimentId)>>>>

GetExperiment(experimentId) ==
    Start("GetExperiment", <<experimentId>>, "GET", NoValue,
          GetRequest(BaseUrl, ExperimentsGet, GetExperimentParams(experimentId)))

GetExperimentsByName(name) ==
    Start("GetExperimentsByName", <<name>>, "GET", NoValue,
          GetRequest(BaseUrl, ExperimentsGetByName, <<<<"experiment_name", Str(name)>>>>))

\* line 183: the request value of CreateExperiment
CreateExperimentRequest(name) == MapV(<<<<"name", Str(name)>>>>)

CreateExperiment(name) ==
    Start("CreateExperiment", <<name>>, "POST", CreateExperimentRequest(name),
          PostRequest(BaseUrl, ExperimentsCreate, CreateExperimentRequest(name)))

\* line 197: the request value of CreateRunWithStartTime
CreateRunRequest(experimentId, startTime, tags) ==
    MapV(<<<<"experiment_id", Str(experimentId)>>, <<"start_time", Int64V(startTime)>>,
           <<"tags", tags>>>>)

\* the body of CreateRunWithStartTime, lines 196-197, entered as method op
CreateRunWithStartTimeAs(op, experimentId, startTime, tags) ==
    Start(op, <<experimentId, startTime, tags>>, "POST",
          CreateRunRequest(experimentId, startTime, tags),
          PostRequest(BaseUrl, RunsCreate, CreateRunRequest(experimentId, startTime, tags)))

CreateRunWithStartTime(experimentId, startTime, tags) ==
    CreateRunWithStartTimeAs("CreateRunWithStartTime", experimentId, startTime, tags)

\* a CreateRun that leaves the start time at zero
CreateRunZeroStart(experimentId, tags) ==
    CreateRunWithStartTimeAs("CreateRun", experimentId, 0, tags)

\* line 210
CreateRun(experimentId, tags) ==
    CreateRunWithStartTimeAs("CreateRun", experimentId, Now, tags)

\* line 215: the request value of UpdateRunWithEndTime
UpdateRunRequest(runId, status, endTime) ==
    MapV(<<<<"run_id", Str(runId)>>, <<"status", StatusV(status)>>,
           <<"end_time", Int64V(endTime)>>>>)

\* the body of UpdateRunWithEndTime, lines 214-215, entered as method op
UpdateRunWithEndTimeAs(op, runId, status, endTime) ==
    Start(op, <<runId, status, endTime>>, "POST", UpdateRunRequest(runId, status, endTime),
          PostRequest(BaseUrl, RunsUpdate, UpdateRunRequest(runId, status, endTime)))

UpdateRunWithEndTime(runId, status, endTime) ==
    UpdateRunWithEndTimeAs("UpdateRunWithEndTime", runId, status, endTime)

\* line 228
UpdateRun(runId, status) == UpdateRunWithEndTimeAs("UpdateRun", runId, status, Now)

\* lines 232-233
DeleteRun(runId) ==
    Start("DeleteRun", <<runId>>, "POST", MapV(<<<<"run_id", Str(runId)>>>>),
          PostRequest(BaseUrl, RunsDelete, MapV(<<<<"run_id", Str(runId)>>>>)))

GetRun(runId) ==
    Start("GetRun", <<runId>>, "GET", NoValue,
          GetRequest(BaseUrl, RunsGet, <<<<"run_id", Str(runId)>>>>))

\* HandlePost called by a user of the package with a request value of its own
HandlePostCall(path, request) ==
    Start("HandlePost", <<path, request>>, "POST", request,
          PostRequest(BaseUrl, path, request))

\* Client.Do and ioutil.ReadAll, lines 112-120 and 138-146: the exchange ends,
\* in a failure or a response.  The service acts on a request that reached it;
\* when Client.Do fails the request may or may not have reached it.
Exchange ==
    /\ call.pc = "sent"
    /\ \E out \in Outcomes(experiments, call.sent) :
          /\ call' = [call EXCEPT !.pc = "answered", !.out = out]
          /\ \/ /\ ServiceHandles(call.sent)
                /\ Reached(out) \/ out = DoError
                /\ experiments' = ServiceStore(experiments, call.sent)
             \/ /\ ~(ServiceHandles(call.sent) /\ Reached(out))
                /\ experiments' = experiments
    /\ UNCHANGED <<BaseUrl, clock, returned, others, qvars>>

\* what the method returns for what its dispatcher returned
ReturnOf(op, h) ==
    CASE op \in {"GetExperiment", "GetExperimentsByName"} -> ExperimentReturn(h)
      [] op = "CreateExperiment" -> CreateExperimentReturn(h)
      [] op \in {"CreateRunWithStartTime", "CreateRun", "GetRun"} -> RunReturn(h)
      [] op \in {"UpdateRunWithEndTime", "UpdateRun"} -> RunUpdateReturn(h)
      [] op = "DeleteRun" -> ErrorReturn(h)
      [] op = "HandlePost" -> [result |-> h.data, err |-> h.err]

\* lines 121-124 / 147-150 and the rest of the method: the dispatcher returns
\* (data, derr), the method decodes the data and returns (result, err)
Finish ==
    /\ call.pc = "answered"
    /\ LET h == IF call.method = "GET" THEN HandleGet(call.out)
                ELSE HandlePost(call.request, call.out)
           r == ReturnOf(call.op, h)
       IN  /\ call' = [call EXCEPT !.pc = "done", !.data = h.data, !.derr = h.err,
                                   !.result = r.result, !.err = r.err]
           /\ returned' = IF /\ call.op = "CreateExperiment"
                             /\ call.out.kind = "response"
                             /\ call.out.fromService
                             /\ r.err = NoError
                          THEN returned \cup {r.result.v} ELSE returned
    /\ UNCHANGED <<BaseUrl, experiments, clock, others, qvars>>

\* another caller's CreateExperiment(name) reaches the service and is answered
OtherCreateServed(name) ==
    LET sent == PostRequest(BaseUrl, ExperimentsCreate, CreateExperimentRequest(name))
    IN  /\ sent # NoRequest
        /\ ServiceAnswer(experiments, sent).status = 200
        /\ experiments' = ServiceStore(experiments, sent)
        /\ others' = others \cup {CreateExperimentReturn(
                         HandlePost(CreateExperimentRequest(name),
                                    ServiceAnswer(experiments, sent))).result.v}
        /\ UNCHANGED <<BaseUrl, clock, returned, call, qvars>>

\* another caller's CreateExperiment returns the identifier it was given
OtherCreateReturns ==
    \E id \in others :
       /\ others' = others \ {id}
       /\ returned' = returned \cup {id}
       /\ UNCHANGED <<BaseUrl, experiments, clock, call, qvars>>

\* the wall clock advances, also while a call is in flight
Tick ==
    /\ clock < MaxClock
    /\ clock' = clock + 1
    /\ UNCHANGED <<BaseUrl, experiments, returned, others, call, qvars>>

\* the arguments the methods are called with
ExperimentIds == {"1", "2", "9"}
Names == {"n1", "n2"}
RunExperimentIds == {"1"}
RunIds == {"r1"}
StatusArgs == {Finished, Killed}
Times == {5}
TagArgs == {NilTagsV, TagsV(<<[key |-> "k", value |-> "v"]>>)}
\* request values a user of the package passes to HandlePost
PostValues ==
    {ChanV,
     MapV(<<<<"b", BoolV(FALSE)>>, <<"a", StrsV(<<"x", "y">>)>>, <<"B", Float64V>>>>)}

\* New(url)
Init ==
    /\ BaseUrl \in BaseUrls
    /\ experiments = <<>>
    /\ clock = 0
    /\ returned = {}
    /\ others = {}
    /\ call = NoCall
    /\ params = <<>>
    /\ q0 = EmptyValues
    /\ todo = <<>>
    /\ q = EmptyValues
    /\ qBefore = EmptyValues
    /\ visited = NoEntry
    /\ qpc = "idle"

Next ==
    \/ \E id \in ExperimentIds : GetExperiment(id)
    \/ \E name \in Names : GetExperimentsByName(name)
    \/ \E name \in Names : CreateExperiment(name)
    \/ \E id \in RunExperimentIds, st \in Times, tags \in TagArgs :
          CreateRunWithStartTime(id, st, tags)
    \/ \E id \in RunExperimentIds, tags \in TagArgs : CreateRun(id, tags)
    \/ \E id \in RunIds, status \in StatusArgs, et \in Times :
          UpdateRunWithEndTime(id, status, et)
    \/ \E id \in RunIds, status \in StatusArgs : UpdateRun(id, status)
    \/ \E id \in RunIds : DeleteRun(id)
    \/ \E id \in RunIds : GetRun(id)
    \/ \E request \in PostValues : HandlePostCall(RunsCreate, request)
    \/ Exchange
    \/ Finish
    \/ \E name \in Names : OtherCreateServed(name)
    \/ OtherCreateReturns
    \/ Tick

Spec == Init /\ [][Next]_vars

(***************************************************************************)
(* HandleGet, lines 107-111: the range loop over params.                   *)
(***************************************************************************)
InitQuery ==
    /\ BaseUrl = "http://localhost:5000"
    /\ experiments = <<>>
    /\ clock = 0
    /\ returned = {}
    /\ others = {}
    /\ call = NoCall
    /\ params \in ParamMaps
    /\ q0 \in UrlQueries
    /\ todo = params
    /\ q = q0
    /\ qBefore = q0
    /\ visited = NoEntry
    /\ qpc = "loop"

\* one iteration of `for key, value := range params { AddQuery(q, key, value) }`
HandleGetVisit ==
    /\ qpc = "loop"
    /\ todo # <<>>
    /\ qBefore' = q
    /\ q' = AddQuery(q, Head(todo)[1], Head(todo)[2])
    /\ visited' = Head(todo)
    /\ todo' = Tail(todo)
    /\ qpc' = "loop"
    /\ UNCHANGED <<params, q0, evars>>

\* req.URL.RawQuery = q.Encode(): the loop is over and q is what is sent
HandleGetEncode ==
    /\ qpc = "loop"
    /\ todo = <<>>
    /\ qpc' = "encoded"
    /\ UNCHANGED <<params, q0, todo, q, qBefore, visited, evars>>

NextQuery == HandleGetVisit \/ HandleGetEncode

SpecQuery == InitQuery /\ [][NextQuery]_vars

(***************************************************************************)
(* Vocabulary of the properties of the flattening.                         *)
(***************************************************************************)
Unsupported(value) == value.t \notin
    (ScalarTypes \cup {"[]string", "[]interface{}", "map[string]interface{}"})

\* the text a scalar is expected to be sent as
Stringified(value) ==
    CASE value.t = "string" -> value.s
      [] value.t = "int" /\ value.i = -12 -> "-12"
      [] value.t = "int64" /\ value.i = 305 -> "305"
      [] value.t = "bool" /\ value.b = FALSE -> "false"
      [] value.t = "bool" /\ value.b = TRUE -> "true"

ValuesAt(v, key) == IF key \in DOMAIN v THEN v[key] ELSE <<>>

\* what the last AddQuery call appended under key
Gained(key) ==
    SubSeq(ValuesAt(q, key), Len(ValuesAt(qBefore, key)) + 1, Len(ValuesAt(q, key)))

\* the last AddQuery call removed or changed nothing that was there before it
KeepsEarlier ==
    /\ DOMAIN qBefore \subseteq DOMAIN q
    /\ \A key \in DOMAIN qBefore :
          /\ Len(qBefore[key]) <= Len(q[key])
          /\ SubSeq(q[key], 1, Len(qBefore[key])) = qBefore[key]

\* the keys of the query before and after the last AddQuery call
AllKeys == DOMAIN q \cup DOMAIN qBefore

\* a mapping whose values are scalars or such mappings again
RECURSIVE IsNestedMapping(_)
RECURSIVE AreNestedEntries(_)
IsNestedMapping(value) ==
    value.t = "map[string]interface{}" /\ AreNestedEntries(value.m)
AreNestedEntries(m) ==
    \/ m = <<>>
    \/ /\ \/ Head(m)[2].t \in ScalarTypes
          \/ IsNestedMapping(Head(m)[2])
       /\ AreNestedEntries(Tail(m))

\* the scalar leaves of a nested mapping, each with the dotted key of its path
RECURSIVE LeafKeys(_, _)
RECURSIVE LeafKeysOfEntries(_, _)
LeafKeys(key, value) ==
    IF value.t = "map[string]interface{}"
    THEN LeafKeysOfEntries(key, value.m)
    ELSE {<<key, value>>}
LeafKeysOfEntries(key, m) ==
    IF m = <<>> THEN {}
    ELSE LeafKeys(key \o "." \o Head(m)[1], Head(m)[2]) \cup LeafKeysOfEntries(key, Tail(m))

\* C4: a mapping of scalars only, flattened into an empty query, gives one entry
\* per key of the mapping, holding the stringified scalar.
C4_OneEntryPerScalarKey ==
    (/\ qpc = "encoded"
     /\ q0 = EmptyValues
     /\ \A i \in 1..Len(params) : params[i][2].t \in ScalarTypes)
    => /\ DOMAIN q = {params[i][1] : i \in 1..Len(params)}
       /\ \A i \in 1..Len(params) : q[params[i][1]] = <<Stringified(params[i][2])>>

C4_Witness ==
    /\ qpc = "encoded"
    /\ q0 = EmptyValues
    /\ params = <<<<"a", IntV(-12)>>, <<"a.b", BoolV(FALSE)>>>>
    /\ q["a"] = <<"-12">>
    /\ q["a.b"] = <<"false">>

\* C5: flattening a nested mapping under an outer key appends each scalar leaf,
\* stringified, under the outer key and the inner keys of its path joined by
\* dots, and appends nothing under any other key, the outer key included.
C5_NestedMappingDottedKeys ==
    (visited # NoEntry /\ IsNestedMapping(visited[2]))
    => /\ KeepsEarlier
       /\ \A key \in AllKeys \cup {e[1] : e \in LeafKeys(visited[1], visited[2])} :
             LET leaves == {e \in LeafKeys(visited[1], visited[2]) : e[1] = key}
             IN  IF leaves = {} THEN Gained(key) = <<>>
                 ELSE /\ Cardinality(leaves) = 1
                      /\ \A e \in leaves : Gained(key) = <<Stringified(e[2])>>
       /\ Gained(visited[1]) = <<>>

C5_Witness ==
    /\ visited = <<"a", MapV(<<<<"b", MapV(<<<<"a", IntV(-12)>>>>)>>>>)>>
    /\ qBefore = EmptyValues
    /\ DOMAIN q = {"a.b.a"}
    /\ q["a.b.a"] = <<"-12">>

\* the texts a sequence value is expected to put under its key, in order
RECURSIVE TextsOf(_)
RECURSIVE TextsOfSeq(_)
TextsOf(value) ==
    CASE value.t \in ScalarTypes -> <<Stringified(value)>>
      [] value.t = "[]string" -> value.xs
      [] value.t = "[]interface{}" -> TextsOfSeq(value.l)
      [] OTHER -> <<>>
TextsOfSeq(l) == IF l = <<>> THEN <<>> ELSE TextsOf(Head(l)) \o TextsOfSeq(Tail(l))

RECURSIVE HasMapping(_)
RECURSIVE HasMappingSeq(_)
HasMapping(value) ==
    \/ value.t = "map[string]interface{}"
    \/ value.t = "[]interface{}" /\ HasMappingSeq(value.l)
HasMappingSeq(l) == l # <<>> /\ (HasMapping(Head(l)) \/ HasMappingSeq(Tail(l)))

\* C6: flattening a []string of length n under key k appends exactly its n
\* elements under k, in order and with duplicates; a []interface{} is flattened
\* element by element under the same key k; no other key is touched.
C6_SequenceRepeatsKey ==
    (/\ visited # NoEntry
     /\ visited[2].t \in {"[]string", "[]interface{}"}
     /\ ~HasMapping(visited[2]))
    => /\ KeepsEarlier
       /\ Gained(visited[1]) = TextsOf(visited[2])
       /\ visited[2].t = "[]string" => Len(Gained(visited[1])) = Len(visited[2].xs)
       /\ \A key \in AllKeys \ {visited[1]} : Gained(key) = <<>>

C6_Witness ==
    /\ visited = <<"a", StrsV(<<"x", "x">>)>>
    /\ qBefore = [k \in {"a"} |-> <<"z">>]
    /\ q = [k \in {"a"} |-> <<"z", "x", "x">>]

\* a value without the unsupported elements of its sequences and mappings
RECURSIVE Strip(_)
RECURSIVE StripSeq(_)
RECURSIVE StripEntries(_)
Strip(value) ==
    CASE value.t = "[]interface{}" -> ListV(StripSeq(value.l))
      [] value.t = "map[string]interface{}" -> MapV(StripEntries(value.m))
      [] OTHER -> value
StripSeq(l) ==
    IF l = <<>> THEN <<>>
    ELSE IF Unsupported(Head(l)) THEN StripSeq(Tail(l))
    ELSE <<Strip(Head(l))>> \o StripSeq(Tail(l))
StripEntries(m) ==
    IF m = <<>> THEN <<>>
    ELSE IF Unsupported(Head(m)[2]) THEN StripEntries(Tail(m))
    ELSE <<<<Head(m)[1], Strip(Head(m)[2])>>>> \o StripEntries(Tail(m))

\* C7: AddQuery with a value of an unsupported type leaves the query exactly
\* as it was, and an unsupported element of a sequence or mapping is skipped:
\* the query is the one the value without that element gives.
C7_UnsupportedDropped ==
    visited # NoEntry
    => /\ Unsupported(visited[2]) => q = qBefore
       /\ q = AddQuery(qBefore, visited[1], Strip(visited[2]))
       /\ KeepsEarlier

C7_Witness ==
    /\ visited = <<"a", ListV(<<Float64V, Str("x")>>)>>
    /\ qBefore = [k \in {"a"} |-> <<"z">>]
    /\ q = [k \in {"a"} |-> <<"z", "x">>]

\* the same value with the entries of its mappings in every visiting order
RECURSIVE Reorderings(_)
RECURSIVE ReorderSeq(_)
RECURSIVE ReorderEntries(_)
Reorderings(value) ==
    CASE value.t = "[]interface{}" -> {ListV(l) : l \in ReorderSeq(value.l)}
      [] value.t = "map[string]interface{}" ->
            {MapV(m) : m \in ReorderEntries({value.m[i] : i \in 1..Len(value.m)})}
      [] OTHER -> {value}
ReorderSeq(l) ==
    IF l = <<>> THEN {<<>>}
    ELSE {<<h>> \o r : h \in Reorderings(Head(l)), r \in ReorderSeq(Tail(l))}
ReorderEntries(es) ==
    IF es = {} THEN {<<>>}
    ELSE UNION {{<<<<e[1], v>>>> \o r : v \in Reorderings(e[2]),
                                       r \in ReorderEntries(es \ {e})} : e \in es}

ParamOrders == ReorderEntries({params[i] : i \in 1..Len(params)})

\* the number of times text occurs in a list of values
RECURSIVE Count(_, _)
Count(xs, text) ==
    IF xs = <<>> THEN 0
    ELSE (IF Head(xs) = text THEN 1 ELSE 0) + Count(Tail(xs), text)

SameBag(xs, ys) ==
    /\ Len(xs) = Len(ys)
    /\ \A i \in 1..Len(xs) : Count(xs, xs[i]) = Count(ys, xs[i])

\* the entries of every mapping of the value flatten to disjoint sets of keys
RECURSIVE CollisionFree(_, _)
RECURSIVE CollisionFreeSeq(_, _)
RECURSIVE CollisionFreeEntries(_, _)
EmittedKeys(key, value) == DOMAIN AddQuery(EmptyValues, key, value)
CollisionFree(key, value) ==
    CASE value.t = "[]interface{}" -> CollisionFreeSeq(key, value.l)
      [] value.t = "map[string]interface{}" ->
            /\ \A i, j \in 1..Len(value.m) :
                  i # j => EmittedKeys(key \o "." \o value.m[i][1], value.m[i][2])
                           \cap EmittedKeys(key \o "." \o value.m[j][1], value.m[j][2]) = {}
            /\ CollisionFreeEntries(key \o ".", value.m)
      [] OTHER -> TRUE
CollisionFreeSeq(key, l) ==
    l = <<>> \/ (CollisionFree(key, Head(l)) /\ CollisionFreeSeq(key, Tail(l)))
CollisionFreeEntries(prefix, m) ==
    m = <<>> \/ (/\ CollisionFree(prefix \o Head(m)[1], Head(m)[2])
                 /\ CollisionFreeEntries(prefix, Tail(m)))

ParamsCollisionFree ==
    /\ \A i, j \in 1..Len(params) :
          i # j => EmittedKeys(params[i][1], params[i][2])
                   \cap EmittedKeys(params[j][1], params[j][2]) = {}
    /\ CollisionFreeEntries("", params)

\* C10 as stated: the query HandleGet sends is the same for every order in
\* which the entries of params and of its nested mappings are visited.
C10_SameQueryInEveryOrder ==
    qpc = "encoded" => \A m \in ParamOrders : BuildQuery(q0, m) = q

\* C10, amended: in every visiting order the query has the same keys and, under
\* each key, the same values as a multiset; the order of the values is the same
\* too when no two entries of a mapping flatten to the same dotted key.
C10_SameKeysAndBags ==
    qpc = "encoded"
    => \A m \in ParamOrders :
          LET other == BuildQuery(q0, m)
          IN  /\ DOMAIN other = DOMAIN q
              /\ \A key \in DOMAIN q : SameBag(other[key], q[key])
              /\ ParamsCollisionFree => other = q

C10_Witness ==
    /\ qpc = "encoded"
    /\ q0 = EmptyValues
    /\ params = <<<<"a", MapV(<<<<"b", Str("x")>>, <<"a", IntV(-12)>>>>)>>>>
    /\ ParamsCollisionFree
    /\ Cardinality(ParamOrders) = 2
    /\ q = [k \in {"a.a", "a.b"} |-> IF k = "a.a" THEN <<"-12">> ELSE <<"x">>]

(***************************************************************************)
(* Properties of the endpoint methods and of the dispatch.                 *)
(***************************************************************************)
RecordOps ==
    {"GetExperiment", "GetExperimentsByName", "CreateExperiment", "CreateRunWithStartTime",
     "CreateRun", "UpdateRunWithEndTime", "UpdateRun", "GetRun"}
EndpointOps == RecordOps \cup {"DeleteRun"}

\* the call has returned
Done == call.pc = "done"

Non200 == call.out.kind = "response" /\ call.out.status # 200

\* the step in which a method is entered
Entered == call.pc \in {"idle", "done"} /\ call'.pc \in {"sent", "answered"}

\* C1 as stated: when the server answers with a status other than 200, every
\* endpoint method returns a nil result and no error.
C1_Non200NilAndNoError ==
    (Done /\ call.op \in EndpointOps /\ Non200) => (call.result = NIL /\ call.err = NoError)

\* C1, amended: when the server answers with a status other than 200, the
\* dispatcher returns no data and no error; DeleteRun returns no error; every
\* method that returns a record returns a nil result together with the error of
\* decoding no data ("unexpected end of JSON input").
C1_Non200NilAndDecodeError ==
    (Done /\ call.op \in EndpointOps /\ Non200)
    => /\ call.data = NIL
       /\ call.derr = NoError
       /\ call.result = NIL
       /\ call.op = "DeleteRun" => call.err = NoError
       /\ call.op \in RecordOps => call.err = "unexpected end of JSON input"

C1_Witness ==
    /\ Done
    /\ call.op = "GetExperiment"
    /\ call.out.kind = "response"
    /\ call.out.status = 404
    /\ call.out.fromService
    /\ call.result = NIL
    /\ call.err = "unexpected end of JSON input"

\* C2: once a CreateExperiment has returned identifier id, every GetExperiment(id)
\* that is called afterwards and that the service answers returns, without
\* error, an experiment whose ExperimentId is id, whatever was called, by this
\* caller or another, in between and while the call was in flight.
C2_CreateThenGetRoundTrip ==
    (/\ Done
     /\ call.op = "GetExperiment"
     /\ call.args[1] \in call.known
     /\ call.out.kind = "response"
     /\ call.out.fromService)
    => /\ call.err = NoError
       /\ call.result # NIL
       /\ call.result.v.ExperimentId = call.args[1]

C2_Witness ==
    /\ Done
    /\ call.op = "GetExperiment"
    /\ call.args = <<"2">>
    /\ call.known = {"2"}
    /\ Len(experiments) = 2
    /\ call.out.kind = "response"
    /\ call.out.fromService
    /\ call.err = NoError
    /\ call.result.v.ExperimentId = "2"

\* C3: HandleGet and HandlePost return no data and an error when the request
\* could not be built, sent or read; the raw body and no error on status 200;
\* no data and no error on any other status; and HandlePost returns what
\* HandleGet returns for the same exchange.
C3_DispatchResultPolicy ==
    Done
    => /\ call.out.kind \in {"none", "doError", "readError"}
             => (call.data = NIL /\ call.derr # NoError)
       /\ (call.out.kind = "response" /\ call.out.status = 200)
             => (call.data = call.out.body /\ call.derr = NoError)
       /\ Non200 => (call.data = NIL /\ call.derr = NoError)
       /\ (call.sent # NoRequest /\ call.sent.method = "POST")
             => HandleGet(call.out) = [data |-> call.data, err |-> call.derr]
       /\ call.op = "HandlePost" => (call.result = call.data /\ call.err = call.derr)

C3_Witness ==
    /\ Done
    /\ call.op = "DeleteRun"
    /\ call.sent.method = "POST"
    /\ call.out.kind = "response"
    /\ call.out.status = 200
    /\ call.out.body = MalformedBody
    /\ call.data = MalformedBody
    /\ call.derr = NoError

\* C8: in the step in which it is called, CreateRun sends the request of
\* CreateRunWithStartTime with start_time the wall clock's seconds at that
\* moment, UpdateRun that of UpdateRunWithEndTime with end_time the wall clock's
\* seconds at that moment; a start or end time that is passed in is sent as it
\* is.  The clock may have moved on by the time the call returns.
C8_DefaultTimesAreNow ==
    [][(Entered /\ call'.sent # NoRequest)
       => /\ call'.op = "CreateRun"
                => /\ call'.sent = PostRequest(BaseUrl, RunsCreate,
                                       CreateRunRequest(call'.args[1], clock, call'.args[3]))
                   /\ Member(call'.sent.body, "start_time") = JNum(clock)
          /\ call'.op = "UpdateRun"
                => /\ call'.sent = PostRequest(BaseUrl, RunsUpdate,
                                       UpdateRunRequest(call'.args[1], call'.args[2], clock))
                   /\ Member(call'.sent.body, "end_time") = JNum(clock)
          /\ call'.op = "CreateRunWithStartTime"
                => /\ call'.args[2] \in Times
                   /\ Member(call'.sent.body, "start_time") = JNum(call'.args[2])
          /\ call'.op = "UpdateRunWithEndTime"
                => /\ call'.args[3] \in Times
                   /\ Member(call'.sent.body, "end_time") = JNum(call'.args[3])]_vars

C8_Witness ==
    /\ Done
    /\ call.op = "CreateRun"
    /\ call.sent # NoRequest
    /\ call.sent.path = RunsCreate
    /\ Member(call.sent.body, "start_time") = JNum(0)
    /\ clock = 1
    /\ Member(call.sent.body, "experiment_id") = JStr("1")
    /\ Member(call.sent.body, "tags") = JNull
    /\ call.out.kind = "response"

\* C9: a method that returns a record returns either a non-nil result and no
\* error, or a nil result and an error.
C9_ResultXorError ==
    (Done /\ call.op \in RecordOps) => ((call.result # NIL) <=> (call.err = NoError))

C9_Witness ==
    /\ Done
    /\ call.op = "CreateExperiment"
    /\ call.out.kind = "response"
    /\ call.out.status = 200
    /\ call.out.body = JsonBody(JObj(<<<<"Experiment_Id", JStr("9")>>>>))
    /\ call.err = NoError
    /\ call.result = Ptr("9")

====
